---- MODULE Spec2Model ----
(***************************************************************************)
(* Model of the book assistant back end: the intent classifier, the        *)
(* catalog resolver and the purchase assembler of models/purchase.py, the  *)
(* recommendation engine of models/recommender.py, the search path of      *)
(* models/searching.py and the voice loop of models/voice.py.              *)
(*                                                                         *)
(* Texts returned by the language model are sequences of symbols: single   *)
(* characters for the markdown fence and the whitespace, and one symbol    *)
(* for each JSON document.  A line of a markdown table is the sequence of  *)
(* its fields between the '|' delimiters.                                  *)
(***************************************************************************)
EXTENDS Integers, Sequences, FiniteSets, TLC

\* ------------------------------------------------------------------ bounds
MaxQuantity == 2
MaxRows == 6
MaxTurns == 4

\* the number of books the table prompt asks for
RequestedBooks == 5
NumBooks == 22

\* --------------------------------------------------------- generic helpers
Min(a, b) == IF a <= b THEN a ELSE b

Range(s) == {s[i] : i \in 1..Len(s)}

\* s[a:b] of Python for 0 <= a, with b counted from the left
Slice(s, a, b) == IF b <= a THEN <<>> ELSE SubSeq(s, a + 1, Min(b, Len(s)))

RECURSIVE SeqsUpTo(_, _)
SeqsUpTo(S, n) ==
    IF n = 0 THEN {<<>>}
    ELSE LET shorter == SeqsUpTo(S, n - 1)
         IN  shorter \cup {Append(s, x) : s \in {t \in shorter : Len(t) = n - 1}, x \in S}

\* ------------------------------------------------- text of a model response
\* the backtick character
BT == "backtick"
Whitespace == {" ", "\n"}
FenceJson == <<BT, BT, BT, "j", "s", "o", "n">>
Fence == <<BT, BT, BT>>

RECURSIVE lstrip(_)
lstrip(s) == IF s # <<>> /\ Head(s) \in Whitespace THEN lstrip(Tail(s)) ELSE s

RECURSIVE rstrip(_)
rstrip(s) ==
    IF s # <<>> /\ s[Len(s)] \in Whitespace THEN rstrip(SubSeq(s, 1, Len(s) - 1)) ELSE s

\* str.strip()
strip(s) == rstrip(lstrip(s))

startswith(s, p) == Len(s) >= Len(p) /\ SubSeq(s, 1, Len(p)) = p

endswith(s, p) == Len(s) >= Len(p) /\ SubSeq(s, Len(s) - Len(p) + 1, Len(s)) = p

\* ------------------------------------------------------------ JSON values
Topics == {"Null", "dragons"}

IntentKeys == {"quantity", "topic"}

\* the value json.loads returns: a dict with some of the intent keys, or a
\* value that is not a dict
JsonDict(keys, q, t) == [type |-> "dict", keys |-> keys, quantity |-> q, topic |-> t]

JsonScalar == [type |-> "scalar", keys |-> {}, quantity |-> 0, topic |-> ""]

IntentDoc(q, t) == "{\"quantity\": " \o ToString(q) \o ", \"topic\": \"" \o t \o "\"}"

QuantityDoc(q) == "{\"quantity\": " \o ToString(q) \o "}"

EmptyDoc == "{}"

NumberDoc == "5"

Prose == "I am sorry, I cannot help with that."

IntentDocs == {IntentDoc(q, t) : q \in 0..MaxQuantity, t \in Topics}

QuantityDocs == {QuantityDoc(q) : q \in {0, 1}}

JsonDocs == IntentDocs \cup QuantityDocs \cup {EmptyDoc, NumberDoc}

\* json.loads on a text: one JSON document, whitespace around it allowed
json_valid(s) == Len(strip(s)) = 1 /\ strip(s)[1] \in JsonDocs

json_loads(s) ==
    LET doc == strip(s)[1]
    IN  IF doc \in IntentDocs
        THEN LET qt == CHOOSE p \in (0..MaxQuantity) \X Topics : IntentDoc(p[1], p[2]) = doc
             IN  JsonDict(IntentKeys, qt[1], qt[2])
        ELSE IF doc \in QuantityDocs
        THEN LET q == CHOOSE n \in {0, 1} : QuantityDoc(n) = doc
             IN  JsonDict({"quantity"}, q, "")
        ELSE IF doc = EmptyDoc THEN JsonDict({}, 0, "")
        ELSE JsonScalar

\* ------------------------------------------------------ intent classifier
\* the fallback value of parse_user_request
Sentinel == JsonDict(IntentKeys, 0, "Null")

Openings == {<<>>, FenceJson \o <<"\n">>, Fence \o <<"\n">>}

Closings == {<<>>, <<"\n">> \o Fence, <<"\n">> \o Fence \o <<"\n">>}

Payloads == {<<d>> : d \in JsonDocs \cup {Prose}} \cup {<<>>}

\* what model.invoke returns for the classification prompt, or its failure
ModelResponses ==
    {[ok |-> TRUE, content |-> o \o p \o c] : o \in Openings, p \in Payloads, c \in Closings}
        \cup {[ok |-> FALSE, content |-> <<>>]}

NoResponse == [ok |-> FALSE, content |-> <<"-">>]

unfence(response_text) ==
    IF startswith(response_text, FenceJson) /\ endswith(response_text, Fence)
    THEN strip(Slice(response_text, 7, Len(response_text) - 3))
    ELSE response_text

parse_user_request(resp) ==
    IF ~resp.ok THEN Sentinel
    ELSE LET response_text == unfence(strip(resp.content))
         IN  IF json_valid(response_text) THEN json_loads(response_text) ELSE Sentinel

\* --------------------------------------------------------- catalog client
QueryTitles == {"dune", "emma"}

RECURSIVE join(_)
\* ", ".join(names)
join(names) ==
    IF names = <<>> THEN ""
    ELSE IF Len(names) = 1 THEN names[1]
    ELSE names[1] \o ", " \o join(Tail(names))

\* data["items"][0] of the catalog service for a query: volumeInfo and saleInfo
Volume(q) ==
    IF q = <<"dune">>
    THEN [title |-> "Dune", authors |-> <<"Frank Herbert", "Brian Herbert">>,
          listPrice |-> TRUE, amount |-> "9.99", currencyCode |-> "USD"]
    ELSE [title |-> "Emma", authors |-> <<>>,
          listPrice |-> FALSE, amount |-> "", currencyCode |-> ""]

\* the outcomes of one request to the catalog service: a transport error, an
\* answer without "items", an answer with items
ServiceStatuses == {"error", "noitems", "ok"}

ServiceResponse(status, q) == [status |-> status, volume |-> Volume(q)]

get_price_info(sale_info) ==
    IF sale_info.listPrice
    THEN IF sale_info.currencyCode = "" THEN sale_info.amount
         ELSE sale_info.amount \o " " \o sale_info.currencyCode
    ELSE "N/A"

\* None is the empty sequence, a found book the one-element sequence
fetch_book_details(resp) ==
    IF resp.status # "ok" THEN <<>>
    ELSE << [title |-> resp.volume.title,
             author |-> IF resp.volume.authors # <<>> THEN join(resp.volume.authors) ELSE "N/A",
             price |-> get_price_info(resp.volume)] >>

\* ------------------------------------------------------- catalog resolver
\* a line of the table is the sequence of its fields between the '|'
Row(t) == << <<>>, <<" ", t, " ">>, <<" ", "author", " ">>, <<>> >>

OneColumn(t) == << <<>>, <<" ", t, " ">>, <<>> >>

Header == << <<>>, <<" ", "Title", " ">>, <<" ", "Author", " ">>, <<>> >>

Separator == << <<>>, <<"---">>, <<"---">>, <<>> >>

Blank == << <<>> >>

DataLines == {Row(t) : t \in QueryTitles} \cup {OneColumn("emma")}

Preambles == {<<>>, <<Header, Separator>>, <<Blank, Header, Separator>>}

\* what model.invoke returns for the table prompt, or its failure
TableResponses ==
    {[ok |-> TRUE, content |-> pre \o rows] : pre \in Preambles, rows \in SeqsUpTo(DataLines, MaxRows)}
        \cup {[ok |-> FALSE, content |-> <<>>]}

IsBlankLine(line) == \A i \in 1..Len(line) : strip(line[i]) = <<>>

RECURSIVE lstrip_lines(_)
lstrip_lines(ls) ==
    IF ls # <<>> /\ Len(Head(ls)) = 1 /\ IsBlankLine(Head(ls)) THEN lstrip_lines(Tail(ls)) ELSE ls

RECURSIVE rstrip_lines(_)
rstrip_lines(ls) ==
    IF ls # <<>> /\ Len(ls[Len(ls)]) = 1 /\ IsBlankLine(ls[Len(ls)])
    THEN rstrip_lines(SubSeq(ls, 1, Len(ls) - 1)) ELSE ls

\* table_text.strip().split('\n')
split_lines(content) == rstrip_lines(lstrip_lines(content))

\* [part.strip() for part in line.split('|') if part.strip()]
parts(line) ==
    LET stripped == [i \in 1..Len(line) |-> strip(line[i])]
    IN  SelectSeq(stripped, LAMBDA f : f # <<>>)

\* the lines the loop of search_books iterates over
data_lines(content) ==
    LET lines == split_lines(content)
    IN  IF Len(lines) >= 3 THEN Slice(lines, 2, Len(lines)) ELSE <<>>

RowAccepted(line) == Len(parts(line)) >= 2

\* one iteration of the loop of search_books
search_books_step(books, line, status) ==
    IF RowAccepted(line)
    THEN books \o fetch_book_details(ServiceResponse(status, parts(line)[1]))
    ELSE books

\* ------------------------------------------------------------ search path
\* the outcomes of one request of models/searching.py to the catalog service:
\* those above, an answer with a status other than 200, and an answer with
\* status 200 whose body is not JSON
SearchStatuses == ServiceStatuses \cup {"http", "badjson"}

RECURSIVE table_books(_)
\* the loop of generate_recommendations: a row with two fields is a book
table_books(ls) ==
    IF ls = <<>> THEN <<>>
    ELSE (IF Len(parts(Head(ls))) >= 2
          THEN <<[title |-> parts(Head(ls))[1], author |-> parts(Head(ls))[2]]>>
          ELSE <<>>) \o table_books(Tail(ls))

\* generate_recommendations of models/searching.py, from the model's answer
generate_recommendations(content) ==
    LET table_lines == split_lines(content)
    IN  IF Len(table_lines) < 3 THEN <<>> ELSE table_books(Slice(table_lines, 2, Len(table_lines)))

\* fetch_book_details of models/searching.py: requests.get and resp.json()
\* are not guarded, so their exceptions leave the function
search_fetch_book_details(resp) ==
    IF resp.status \in {"error", "badjson"} THEN [raised |-> TRUE, details |-> <<>>]
    ELSE IF resp.status # "ok" THEN [raised |-> FALSE, details |-> <<>>]
    ELSE [raised |-> FALSE,
          details |-> << [Title |-> resp.volume.title,
                          Author |-> IF resp.volume.authors # <<>>
                                     THEN join(resp.volume.authors) ELSE "N/A",
                          Price |-> IF resp.volume.listPrice
                                    THEN IF resp.volume.currencyCode = "" THEN resp.volume.amount
                                         ELSE resp.volume.amount \o " " \o resp.volume.currencyCode
                                    ELSE "N/A"] >>]

\* --------------------------------------------------------- profile store
Users == {"u1", "u2", "u3", "u4", "u5"}

\* a document of the users collection: the keys it has and their values
UserDoc(exists, keys, prefs, wish, owned, recs, fmt, pay, addr) ==
    [exists |-> exists, keys |-> keys, preferences |-> prefs, wishlist |-> wish,
     owned_books |-> owned, recommendations |-> recs, preferred_format |-> fmt,
     default_payment |-> pay, default_address |-> addr]

NoDoc == UserDoc(FALSE, {}, <<>>, <<>>, <<>>, <<>>, "", "", "")

\* user_ref.get().to_dict() or {}
to_dict(doc) == IF doc.exists THEN doc ELSE NoDoc

\* the read fails and the request goes on with an empty profile
read_user_data_defaulted(doc, read_ok) ==
    [raised |-> FALSE, data |-> IF read_ok THEN to_dict(doc) ELSE NoDoc]

\* user_ref.get() and its to_dict() or {}: the read raises or gives the data
read_user_data(doc, read_ok) ==
    [raised |-> ~read_ok, data |-> IF read_ok THEN to_dict(doc) ELSE NoDoc]

\* user_data.get(key, default)
Get(user_data, key, default) == IF key \in user_data.keys THEN user_data[key] ELSE default

Defaults == {"preferred_format", "default_payment", "default_address"}

\* the users collection the purchase requests run against: a user without a
\* document, one with an empty document, and three with owned titles
PurchaseStore ==
    [u \in Users |->
        CASE u = "u1" -> UserDoc(TRUE, {"owned_books"}, <<>>, <<>>, <<"Dune">>, <<>>, "", "", "")
          [] u = "u2" -> NoDoc
          [] u = "u3" -> UserDoc(TRUE, {}, <<>>, <<>>, <<>>, <<>>, "", "", "")
          [] u = "u4" -> UserDoc(TRUE, {"owned_books"} \cup Defaults, <<>>, <<>>, <<"Emma">>,
                                 <<>>, "Ebook", "PayPal", "1 Main St")
          [] OTHER -> UserDoc(TRUE, {"owned_books"} \cup Defaults, <<>>, <<>>,
                              <<"Dune", "Emma">>, <<>>, "Ebook", "PayPal", "1 Main St")]

\* ----------------------------------------------------- purchase assembler
\* the test looks at the topic only
request_branch_topic(parsed) ==
    IF parsed.type # "dict" THEN "TypeError"
    ELSE IF IntentKeys \ parsed.keys # {} THEN "KeyError"
    ELSE IF parsed.topic # "Null" THEN "purchase" ELSE "chat"

\* the test of handle_user_request and of chat on the parsed request:
\* "purchase", "chat", or the exception the subscripting raises
request_branch(parsed) ==
    IF parsed.type # "dict" THEN "TypeError"
    ELSE IF "quantity" \notin parsed.keys THEN "KeyError"
    ELSE IF parsed.quantity > 0
         THEN IF "topic" \notin parsed.keys THEN "KeyError"
              ELSE IF parsed.topic # "Null" THEN "purchase" ELSE "chat"
         ELSE "chat"

\* the filter leaves the list as it is
filter_owned_kept(books_found, user_data) == books_found

\* [book for book in found_books if book["title"] not in owned_books]
filter_owned(books_found, user_data) ==
    SelectSeq(books_found, LAMBDA book : book.title \notin Range(Get(user_data, "owned_books", <<>>)))

\* the offer with "N/A" for every field the profile lacks
purchase_offer_unset(uid, book, user_data) ==
    [user_id |-> uid,
     book_title |-> book.title,
     author |-> book.author,
     price |-> book.price,
     format |-> Get(user_data, "preferred_format", "N/A"),
     payment_method |-> Get(user_data, "default_payment", "N/A"),
     shipping_address |-> Get(user_data, "default_address", "N/A")]

\* one element of purchase_details
purchase_offer(uid, book, user_data) ==
    [user_id |-> uid,
     book_title |-> book.title,
     author |-> book.author,
     price |-> book.price,
     format |-> Get(user_data, "preferred_format", "Paperback"),
     payment_method |-> Get(user_data, "default_payment", "Credit Card"),
     shipping_address |-> Get(user_data, "default_address", "")]

\* an offer for every filtered book, whatever the quantity
build_purchase_details_all(uid, quantity, filtered_books, user_data) ==
    [i \in 1..Len(filtered_books) |-> purchase_offer(uid, filtered_books[i], user_data)]

build_purchase_details(uid, quantity, filtered_books, user_data) ==
    [i \in 1..Min(quantity, Len(filtered_books)) |-> purchase_offer(uid, filtered_books[i], user_data)]

Reply(status, branch, error, quantity, books, details) ==
    [status |-> status, branch |-> branch, error |-> error, requested_quantity |-> quantity,
     found_books |-> books, purchase_details |-> details]

NoResult == Reply("none", "", "", 0, <<>>, <<>>)

Raised(error) == Reply("raised", "", error, 0, <<>>, <<>>)

\* the branch returns the candidates as found, cut to the quantity
handle_purchase_unfiltered(uid, parsed, books_found, user_data) ==
    IF books_found = <<>> THEN Reply("ok", "notfound", "", 0, <<>>, <<>>)
    ELSE Reply("ok", "purchase", "", parsed.quantity,
               Slice(books_found, 0, parsed.quantity),
               build_purchase_details(uid, parsed.quantity,
                                      filter_owned(books_found, user_data), user_data))

\* the purchase branch of handle_user_request once search_books has returned
handle_purchase(uid, parsed, books_found, user_data) ==
    IF books_found = <<>> THEN Reply("ok", "notfound", "", 0, <<>>, <<>>)
    ELSE LET filtered_books == filter_owned(books_found, user_data)
         IN  Reply("ok", "purchase", "", parsed.quantity,
                   Slice(filtered_books, 0, parsed.quantity),
                   build_purchase_details(uid, parsed.quantity, filtered_books, user_data))

\* the route returns every book that is left, whatever the quantity
chat_purchase_uncut(uid, parsed, books_found, user_data) ==
    IF books_found = <<>> THEN Reply("ok", "notfound", "", 0, <<>>, <<>>)
    ELSE LET filtered_books == filter_owned(books_found, user_data)
         IN  Reply("ok", "purchase", "", parsed.quantity, filtered_books,
                   build_purchase_details(uid, parsed.quantity, filtered_books, user_data))

\* the same branch of the /chat route of app.py
chat_purchase(uid, parsed, books_found, user_data) ==
    IF books_found = <<>> THEN Reply("ok", "notfound", "", 0, <<>>, <<>>)
    ELSE LET filtered_books == filter_owned(books_found, user_data)
         IN  Reply("ok", "purchase", "", parsed.quantity,
                   Slice(filtered_books, 0, parsed.quantity),
                   build_purchase_details(uid, parsed.quantity, filtered_books, user_data))

Endpoints == {"handle", "chat"}

OtherEndpoint(ep) == IF ep = "handle" THEN "chat" ELSE "handle"

\* the conversational branch: handle_user_request invokes the model, which
\* can fail; the route returns the reply it already has
chat_reply(ep, invoke_ok) ==
    IF ep = "handle" /\ ~invoke_ok THEN Raised("model")
    ELSE Reply("ok", "chat", "", 0, <<>>, <<>>)

\* the purchase branch of an endpoint once search_books has returned; the
\* profile is read only when books were found
purchase_reply(ep, uid, parsed, books_found, user_doc) ==
    IF books_found # <<>> /\ user_doc.raised THEN Raised("profile")
    ELSE IF ep = "chat" THEN chat_purchase(uid, parsed, books_found, user_doc.data)
    ELSE handle_purchase(uid, parsed, books_found, user_doc.data)

\* ------------------------------------------------------- voice front end
\* a recognized text is the sequence of its characters
RecognizedTexts ==
    {<<>>, <<"B", "y", "e">>, <<"E", "X", "I", "T">>, <<"q", "u", "i", "t", "e">>,
     <<"g", "o", "o", "d", "b", "y", "e">>, <<"d", "u", "n", "e">>, <<"y", "e", "s">>,
     <<"n", "o", "p", "e">>}

\* sr.WaitTimeoutError, sr.UnknownValueError, sr.RequestError
RecognitionFailures == {"timeout", "unknown", "request"}

\* what listen_for_query returns: a text, or None after a failure
ListenOutcomes ==
    {[heard |-> TRUE, failure |-> "none", text |-> t] : t \in RecognizedTexts}
        \cup {[heard |-> FALSE, failure |-> f, text |-> <<>>] : f \in RecognitionFailures}

\* the truth value of the query in `if not query`
truthy(query) == query.heard /\ query.text # <<>>

lower_char(c) ==
    CASE c = "B" -> "b" [] c = "E" -> "e" [] c = "X" -> "x" [] c = "I" -> "i" [] c = "T" -> "t"
      [] OTHER -> c

\* str.lower()
lower(text) == [i \in 1..Len(text) |-> lower_char(text[i])]

\* sub in text
contains(text, sub) ==
    \E i \in 0..(Len(text) - Len(sub)) : SubSeq(text, i + 1, i + Len(sub)) = sub

ExitPhrases ==
    {<<"e", "x", "i", "t">>, <<"q", "u", "i", "t">>, <<"g", "o", "o", "d", "b", "y", "e">>,
     <<"b", "y", "e">>}

\* any(exit_phrase in query.lower() for exit_phrase in [...])
is_exit(text) == \E exit_phrase \in ExitPhrases : contains(lower(text), exit_phrase)

\* a query that is None or empty ends the loop
after_query_break(query) ==
    IF ~truthy(query) THEN "ended"
    ELSE IF is_exit(query.text) THEN "ended"
    ELSE "handle"

\* where handle_voice_interaction goes with the query it got
after_query(query) ==
    IF ~truthy(query) THEN "listen"
    ELSE IF is_exit(query.text) THEN "ended"
    ELSE "handle"

\* the answers of the confirmation loop
is_yes(text) == contains(lower(text), <<"y", "e", "s">>) \/ contains(lower(text), <<"y", "e", "a", "h">>)

is_no(text) == contains(lower(text), <<"n", "o">>) \/ contains(lower(text), <<"n", "o", "p", "e">>)

\* where _handle_purchase_confirmation goes with the answer it got
after_answer(answer) ==
    IF ~truthy(answer) THEN "confirm"
    ELSE IF is_yes(answer.text) \/ is_no(answer.text) THEN "listen"
    ELSE "confirm"

\* what handle_voice_interaction says after the handler's result
spoken_response(res) ==
    IF res.status = "raised" THEN "error"
    ELSE IF res.found_books # <<>>
    THEN IF res.purchase_details # <<>> THEN "found, purchase?" ELSE "found"
    ELSE "message"

\* where handle_voice_interaction goes with the handler's result
after_request(res) ==
    IF res.status = "raised" THEN "listen"
    ELSE IF res.purchase_details # <<>> THEN "confirm"
    ELSE "listen"

\* --------------------------------------------------- recommendation engine
BookIds == 1..NumBooks

\* the limit of the fallback query
FallbackLimit == 20

\* the length the recommendations are cut to
MaxRecommendations == 10

\* a document of the books collection: missing, without fields ("empty"),
\* with a Category that is not an array ("nolist") or with a Category array
BookDoc(kind, cats) == [kind |-> kind, Category |-> cats]

MissingBook == BookDoc("missing", <<>>)

\* db.collection("books").document(book_id).get()
get_book(catalog, book_id) == IF book_id \in DOMAIN catalog THEN catalog[book_id] ELSE MissingBook

\* the categories get_book_categories collects, "N/A" included
get_book_categories_raw(catalog, book_ids) ==
    UNION {IF get_book(catalog, book_ids[i]).kind = "list"
           THEN {cat \in Range(get_book(catalog, book_ids[i]).Category) : cat # ""}
           ELSE {} : i \in 1..Len(book_ids)}

get_book_categories(catalog, book_ids) ==
    UNION {IF get_book(catalog, book_ids[i]).kind = "list"
           THEN {cat \in Range(get_book(catalog, book_ids[i]).Category) : cat # "" /\ cat # "N/A"}
           ELSE {} : i \in 1..Len(book_ids)}

\* the stored recommendations count as books the user has
get_user_profile_with_stored(doc) ==
    [preferences |-> Get(to_dict(doc), "preferences", <<>>),
     wishlist |-> Get(to_dict(doc), "wishlist", <<>>),
     owned_books |-> Get(to_dict(doc), "owned_books", <<>>)
                       \o [i \in 1..Len(Get(to_dict(doc), "recommendations", <<>>)) |->
                              Get(to_dict(doc), "recommendations", <<>>)[i].id]]

\* the profile get_user_profile builds from the user's document
get_user_profile(doc) ==
    [preferences |-> Get(to_dict(doc), "preferences", <<>>),
     wishlist |-> Get(to_dict(doc), "wishlist", <<>>),
     owned_books |-> Get(to_dict(doc), "owned_books", <<>>)]

NoProfile == [preferences |-> <<>>, wishlist |-> <<>>, owned_books |-> <<>>]

\* set(wishlist_categories + preferred_categories + owned_book_categories)
collect_categories(catalog, user_profile) ==
    get_book_categories(catalog, user_profile.wishlist)
        \cup Range(user_profile.preferences)
        \cup get_book_categories(catalog, user_profile.owned_books)

\* the query answers with every existing book
query_all(catalog, category) == {id \in DOMAIN catalog : catalog[id].kind # "missing"}

\* books_ref.where("Category", "array-contains", category).get()
query_by_category(catalog, category) ==
    {id \in DOMAIN catalog : catalog[id].kind = "list" /\ category \in Range(catalog[id].Category)}

RECURSIVE Ascending(_)
Ascending(S) ==
    IF S = {} THEN <<>>
    ELSE LET least == CHOOSE x \in S : \A y \in S : x <= y
         IN  <<least>> \o Ascending(S \ {least})

Reverse(s) == [i \in 1..Len(s) |-> s[Len(s) + 1 - i]]

\* list(a_set): the iteration order of a set is not fixed
Orders == {"ascending", "descending"}

list_of(S, order) == IF order = "ascending" THEN Ascending(S) ELSE Reverse(Ascending(S))

\* the fallback query without its limit
fallback_ids_unlimited(catalog) ==
    Ascending({id \in DOMAIN catalog : catalog[id].kind # "missing"})

\* db.collection("books").limit(20).get(): the first documents by id
fallback_ids(catalog) ==
    Slice(Ascending({id \in DOMAIN catalog : catalog[id].kind # "missing"}), 0, FallbackLimit)

\* search_books_with_categories; failed tells whether a category query
\* raised, fallback_ok whether the fallback query then succeeded
search_books_with_categories(catalog, categories, failed, fallback_ok, order) ==
    IF categories = {} THEN <<>>
    ELSE IF ~failed
    THEN list_of(UNION {query_by_category(catalog, category) : category \in categories}, order)
    ELSE IF fallback_ok THEN fallback_ids(catalog)
    ELSE <<>>

\* the filter keeps the ids of the wishlist
exclude_owned_only(book_ids, user_profile) ==
    SelectSeq(book_ids, LAMBDA id : id \notin Range(user_profile.owned_books))

\* [id for id in ids if id not in owned_books and id not in wishlist]
exclude_known(book_ids, user_profile) ==
    SelectSeq(book_ids, LAMBDA id : /\ id \notin Range(user_profile.owned_books)
                                    /\ id \notin Range(user_profile.wishlist))

RECURSIVE get_book_details(_, _)
get_book_details(catalog, book_ids) ==
    IF book_ids = <<>> THEN <<>>
    ELSE LET book_data == get_book(catalog, Head(book_ids))
             rest == get_book_details(catalog, Tail(book_ids))
         IN  IF book_data.kind \in {"missing", "empty"} THEN rest
             ELSE <<[id |-> Head(book_ids), kind |-> book_data.kind,
                     Category |-> book_data.Category]>> \o rest

\* the steps of recommend_books after the search
finish_recommendations(catalog, recommended_book_ids, user_profile) ==
    Slice(get_book_details(catalog, exclude_known(recommended_book_ids, user_profile)),
          0, MaxRecommendations)

\* the update leaves the document as it is
update_skipped(doc, recs) == doc

\* set() in place of update(): the document is replaced by the one field
update_replaced(doc, recs) ==
    [doc EXCEPT !.recommendations = recs, !.keys = {"recommendations"}]

\* the update appends the list to the stored one
update_merged(doc, recs) ==
    [doc EXCEPT !.recommendations = @ \o recs, !.keys = @ \cup {"recommendations"}]

\* db.collection("users").document(user_id).update({"recommendations": ...})
update_recommendations(doc, recs) ==
    [doc EXCEPT !.recommendations = recs, !.keys = @ \cup {"recommendations"}]

\* ------------------------------------------------------------------ state
VARIABLES
    users,              \* the users collection of the profile store
    pc,                 \* position of the request being served
    endpoint,           \* handle_user_request or the /chat route
    user_id,            \* the user of the request
    response,           \* the model's answer to the classification prompt
    parsed_request,     \* the value parse_user_request returned
    lines,              \* search_books: the table lines still to process
    recommended_books,  \* search_books: the books found so far
    found_books,        \* the list search_books returned
    result,             \* what the request returned to its caller
    searches,           \* calls of search_books in this request
    lookups,            \* calls of fetch_book_details in this request
    saved,              \* roles of the chat messages saved in this request
    pfault,             \* whether the profile read of this request failed
    other_result,       \* what the other endpoint returns for the same intent,
                        \* candidates and profile
    books,              \* the books collection of the catalog
    rpc,                \* position of each recommend call
    ruser,              \* its user id
    user_profile,       \* the profile it read
    all_categories,     \* the categories it collected
    recommended_book_ids, \* the ids its search returned
    recommendations,    \* the list it computed
    rresult,            \* what main_recommender returned
    queries,            \* category and fallback queries it issued
    degraded,           \* whether one of its category queries failed
    rorder,             \* the iteration order its list(set(...)) produced
    rfault,             \* the store operation of the call that failed, if any
    last_writer,        \* per user, the running call that updated recommendations last
    spc,                \* position of the /search request being served
    squeue,             \* main_search: the recommended books still to look up
    book_details_list,  \* main_search: the details found so far
    sresult,            \* what main_search returned or raised
    slookups,           \* calls of fetch_book_details in this search
    vpc,                \* position of the voice loop
    vquery,             \* what listen_for_query returned last
    vresult,            \* what the request handler returned last
    vspoken,            \* the last text passed to _speak
    vturns              \* calls of listen_for_query so far

pvars == <<pc, endpoint, user_id, response, parsed_request, lines, recommended_books,
           found_books, result, searches, lookups, saved, pfault, other_result>>

rvars == <<books, rpc, ruser, user_profile, all_categories, recommended_book_ids,
           recommendations, rresult, queries, degraded, rorder, rfault, last_writer>>

svars == <<spc, squeue, book_details_list, sresult, slookups>>

vvars == <<vpc, vquery, vresult, vspoken, vturns>>

vars == <<users, pvars, rvars, svars, vvars>>

NoParsed == JsonDict({}, 0, "-")

PurchaseIdle ==
    /\ pc = "idle"
    /\ endpoint = "handle"
    /\ user_id = "u1"
    /\ response = NoResponse
    /\ parsed_request = NoParsed
    /\ lines = <<>>
    /\ recommended_books = <<>>
    /\ found_books = <<>>
    /\ result = NoResult
    /\ searches = 0
    /\ lookups = 0
    /\ saved = <<>>
    /\ pfault = FALSE
    /\ other_result = NoResult

RProcs == {"r1", "r2"}

NoRecResult == [status |-> "none", list |-> <<>>]

RecommendIdle ==
    /\ rpc = [p \in RProcs |-> "idle"]
    /\ ruser = [p \in RProcs |-> "u1"]
    /\ user_profile = [p \in RProcs |-> NoProfile]
    /\ all_categories = [p \in RProcs |-> {}]
    /\ recommended_book_ids = [p \in RProcs |-> <<>>]
    /\ recommendations = [p \in RProcs |-> <<>>]
    /\ rresult = [p \in RProcs |-> NoRecResult]
    /\ queries = [p \in RProcs |-> 0]
    /\ degraded = [p \in RProcs |-> FALSE]
    /\ rorder = [p \in RProcs |-> "ascending"]
    /\ rfault = [p \in RProcs |-> "none"]
    /\ last_writer = [u \in Users |-> "none"]

NoSearchResult == [status |-> "none", error |-> "", books |-> <<>>]

SearchIdle ==
    /\ spc = "idle"
    /\ squeue = <<>>
    /\ book_details_list = <<>>
    /\ sresult = NoSearchResult
    /\ slookups = 0

\* None, as listen_for_query returns it before anything was heard
NoQuery == [heard |-> FALSE, failure |-> "none", text |-> <<>>]

VoiceIdle ==
    /\ vpc = "idle"
    /\ vquery = NoQuery
    /\ vresult = NoResult
    /\ vspoken = ""
    /\ vturns = 0

Init ==
    /\ users = PurchaseStore
    /\ books = <<>>
    /\ PurchaseIdle
    /\ RecommendIdle
    /\ SearchIdle
    /\ VoiceIdle

\* a request arrives and is classified (purchase.py 159, app.py 122-147)
Receive ==
    /\ pc = "idle"
    /\ \E uid \in Users, ep \in Endpoints, resp \in ModelResponses, chat_ok \in BOOLEAN :
           /\ user_id' = uid
           /\ endpoint' = ep
           /\ IF ep = "chat" /\ ~chat_ok
              THEN \* model.invoke(prompt) of the route raises after the first save_chat
                   /\ pc' = "done"
                   /\ result' = Raised("model")
                   /\ saved' = <<"user">>
                   /\ UNCHANGED <<response, parsed_request>>
              ELSE /\ pc' = "parsed"
                   /\ response' = resp
                   /\ parsed_request' = parse_user_request(resp)
                   /\ saved' = IF ep = "chat" THEN <<"user", "assistant">> ELSE <<>>
                   /\ UNCHANGED result
           /\ UNCHANGED <<svars, vvars, rvars, users, lines, recommended_books, found_books, searches, lookups, pfault,
                          other_result>>

\* the request is a purchase: search_books asks the model for the table
\* (purchase.py 161-167 and 87-99, app.py 149-155)
BranchPurchase ==
    /\ pc = "parsed"
    /\ request_branch(parsed_request) = "purchase"
    /\ \E table \in TableResponses :
           /\ searches' = searches + 1
           /\ IF table.ok
              THEN /\ pc' = "search"
                   /\ lines' = data_lines(table.content)
                   /\ UNCHANGED <<result, other_result>>
              ELSE /\ pc' = "done"
                   /\ result' = Raised("model")
                   /\ other_result' = Raised("model")
                   /\ UNCHANGED lines
           /\ response' = NoResponse
           /\ UNCHANGED <<svars, vvars, rvars, users, endpoint, user_id, parsed_request, recommended_books, found_books,
                          lookups, saved, pfault>>

\* the request is a conversation: handle_user_request asks the model for the
\* reply, the route reuses the reply it has (purchase.py 206-210, app.py 196-198)
BranchChat ==
    /\ pc = "parsed"
    /\ request_branch(parsed_request) = "chat"
    /\ \E invoke_ok \in BOOLEAN :
           /\ pc' = "done"
           /\ result' = chat_reply(endpoint, invoke_ok)
           /\ other_result' = chat_reply(OtherEndpoint(endpoint), invoke_ok)
           /\ response' = NoResponse
           /\ UNCHANGED <<svars, vvars, rvars, users, endpoint, user_id, parsed_request, lines, recommended_books,
                          found_books, searches, lookups, saved, pfault>>

\* the parsed value is not a dict or lacks a key: the subscripting raises
\* (purchase.py 161, app.py 149)
BranchRaise ==
    /\ pc = "parsed"
    /\ request_branch(parsed_request) \notin {"purchase", "chat"}
    /\ pc' = "done"
    /\ result' = Raised(request_branch(parsed_request))
    /\ other_result' = Raised(request_branch(parsed_request))
    /\ response' = NoResponse
    /\ UNCHANGED <<svars, vvars, rvars, users, endpoint, user_id, parsed_request, lines, recommended_books,
                   found_books, searches, lookups, saved, pfault>>

\* one iteration of the loop of search_books (purchase.py 100-105)
SearchStep ==
    /\ pc = "search"
    /\ lines # <<>>
    /\ \E status \in ServiceStatuses :
           /\ recommended_books' = search_books_step(recommended_books, Head(lines), status)
           /\ lookups' = IF RowAccepted(Head(lines)) THEN lookups + 1 ELSE lookups
           /\ lines' = Tail(lines)
           /\ UNCHANGED <<svars, vvars, rvars, users, pc, endpoint, user_id, response, parsed_request, found_books,
                          result, searches, saved, pfault, other_result>>

\* search_books returns (purchase.py 107, 167)
SearchReturn ==
    /\ pc = "search"
    /\ lines = <<>>
    /\ found_books' = recommended_books
    /\ recommended_books' = <<>>
    /\ pc' = "searched"
    /\ UNCHANGED <<svars, vvars, rvars, users, endpoint, user_id, response, parsed_request, lines, result,
                   searches, lookups, saved, pfault, other_result>>

\* the rest of the purchase branch (purchase.py 170-205, app.py 158-195)
Assemble ==
    /\ pc = "searched"
    /\ \E read_ok \in BOOLEAN :
           /\ LET user_doc == read_user_data(users[user_id], read_ok)
              IN  /\ result' = purchase_reply(endpoint, user_id, parsed_request, found_books, user_doc)
                  /\ other_result' = purchase_reply(OtherEndpoint(endpoint), user_id, parsed_request,
                                                    found_books, user_doc)
           /\ pfault' = (found_books # <<>> /\ ~read_ok)
           /\ saved' = IF endpoint = "chat" /\ (found_books = <<>> \/ read_ok)
                       THEN Append(saved, "assistant") ELSE saved
           /\ pc' = "done"
           /\ UNCHANGED <<svars, vvars, rvars, users, endpoint, user_id, response, parsed_request, lines,
                          recommended_books, found_books, searches, lookups>>

\* the caller has the reply; the next request can arrive
Return ==
    /\ pc = "done"
    /\ pc' = "idle"
    /\ endpoint' = "handle"
    /\ user_id' = "u1"
    /\ response' = NoResponse
    /\ parsed_request' = NoParsed
    /\ lines' = <<>>
    /\ recommended_books' = <<>>
    /\ found_books' = <<>>
    /\ result' = NoResult
    /\ searches' = 0
    /\ lookups' = 0
    /\ saved' = <<>>
    /\ pfault' = FALSE
    /\ other_result' = NoResult
    /\ UNCHANGED <<svars, vvars, users, rvars>>

Next ==
    \/ Receive
    \/ BranchPurchase
    \/ BranchChat
    \/ BranchRaise
    \/ SearchStep
    \/ SearchReturn
    \/ Assemble
    \/ Return

Spec == Init /\ [][Next]_vars

\* ------------------------------------------- the recommender's state space
HeadBooks ==
    {BookDoc("list", <<"scifi">>), BookDoc("list", <<"scifi", "classic">>),
     BookDoc("list", <<"N/A">>), BookDoc("nolist", <<>>)}

\* two books of any kind, then science fiction but for a document without
\* fields and a classic; books beyond size do not exist
Catalog(head, size) ==
    [id \in BookIds |->
        IF id <= 2 THEN head[id]
        ELSE IF id > size THEN MissingBook
        ELSE IF id = 5 THEN BookDoc("empty", <<>>)
        ELSE IF id = 6 THEN BookDoc("list", <<"classic">>)
        ELSE BookDoc("list", <<"scifi">>)]

Catalogs == {Catalog(head, size) : head \in [1..2 -> HeadBooks], size \in {2, NumBooks}}

StaleEntry == [id |-> 2, kind |-> "list", Category |-> <<"scifi">>]

RecommendKeys == {"preferences", "wishlist", "owned_books", "recommendations"}

RecommendDocs ==
    {UserDoc(TRUE, RecommendKeys, prefs, wish, owned, recs, "", "", "") :
        prefs \in {<<>>, <<"scifi">>, <<"scifi", "classic">>},
        wish \in {<<>>, <<1>>, <<3, 1>>},
        owned \in {<<>>, <<2>>, <<2, 4>>},
        recs \in {<<>>, <<StaleEntry>>}}

RecommendStores ==
    {[u \in Users |->
        CASE u = "u1" -> doc
          [] u = "u3" -> UserDoc(TRUE, {}, <<>>, <<>>, <<>>, <<>>, "", "", "")
          [] u = "u4" -> UserDoc(TRUE, {"preferences"}, <<"classic">>, <<>>, <<>>, <<>>, "", "", "")
          [] OTHER -> NoDoc] : doc \in RecommendDocs}

InitRecommend ==
    /\ users \in RecommendStores
    /\ books \in Catalogs
    /\ PurchaseIdle
    /\ RecommendIdle
    /\ SearchIdle
    /\ VoiceIdle

\* main_recommender(user_id) starts: recommend_books reads the profile and
\* collects the categories (recommender.py 139-119)
RecStart(p) ==
    /\ rpc[p] = "idle"
    /\ \E uid \in Users, read_ok \in BOOLEAN :
           /\ ruser' = [ruser EXCEPT ![p] = uid]
           /\ IF ~read_ok
              THEN /\ rpc' = [rpc EXCEPT ![p] = "done"]
                   /\ rresult' = [rresult EXCEPT ![p] = [status |-> "raised", list |-> <<>>]]
                   /\ rfault' = [rfault EXCEPT ![p] = "profile"]
                   /\ UNCHANGED <<user_profile, all_categories>>
              ELSE LET profile == get_user_profile(users[uid])
                       categories == collect_categories(books, profile)
                   IN  /\ user_profile' = [user_profile EXCEPT ![p] = profile]
                       /\ all_categories' = [all_categories EXCEPT ![p] = categories]
                       /\ rpc' = [rpc EXCEPT ![p] = IF categories = {} THEN "computed" ELSE "search"]
                       /\ UNCHANGED <<rresult, rfault>>
    /\ UNCHANGED <<svars, vvars, users, pvars, books, recommended_book_ids, recommendations, queries,
                   degraded, rorder, last_writer>>

\* search_books_with_categories: the category queries, and the fallback
\* query when one of them fails (recommender.py 121, 56-88)
RecSearch(p) ==
    /\ rpc[p] = "search"
    /\ \E fail_at \in 0..Cardinality(all_categories[p]), fallback_ok \in BOOLEAN, order \in Orders :
           /\ recommended_book_ids' = [recommended_book_ids EXCEPT ![p] =
                  search_books_with_categories(books, all_categories[p], fail_at > 0, fallback_ok, order)]
           /\ queries' = [queries EXCEPT ![p] =
                  IF fail_at = 0 THEN Cardinality(all_categories[p]) ELSE fail_at + 1]
           /\ degraded' = [degraded EXCEPT ![p] = fail_at > 0]
           /\ rorder' = [rorder EXCEPT ![p] = IF fail_at > 0 THEN @ ELSE order]
    /\ rpc' = [rpc EXCEPT ![p] = "filter"]
    /\ UNCHANGED <<svars, vvars, users, pvars, books, ruser, user_profile, all_categories, recommendations,
                   rresult, rfault, last_writer>>

\* the exclusion of known ids, get_book_details and the cut to 10
\* (recommender.py 123-133)
RecDetails(p) ==
    /\ rpc[p] = "filter"
    /\ \E read_ok \in BOOLEAN :
           IF read_ok
           THEN /\ recommendations' = [recommendations EXCEPT ![p] =
                       finish_recommendations(books, recommended_book_ids[p], user_profile[p])]
                /\ rpc' = [rpc EXCEPT ![p] = "computed"]
                /\ UNCHANGED <<rresult, rfault>>
           ELSE /\ rpc' = [rpc EXCEPT ![p] = "done"]
                /\ rresult' = [rresult EXCEPT ![p] = [status |-> "raised", list |-> <<>>]]
                /\ rfault' = [rfault EXCEPT ![p] = "books"]
                /\ UNCHANGED recommendations
    /\ UNCHANGED <<svars, vvars, users, pvars, books, ruser, user_profile, all_categories, recommended_book_ids,
                   queries, degraded, rorder, last_writer>>

\* main_recommender stores a list that is not empty (recommender.py 143-147)
RecWrite(p) ==
    /\ rpc[p] = "computed"
    /\ \E write_ok \in BOOLEAN :
           IF recommendations[p] = <<>>
           THEN /\ rpc' = [rpc EXCEPT ![p] = "written"]
                /\ UNCHANGED <<users, rresult, rfault, last_writer>>
           ELSE IF write_ok /\ users[ruser[p]].exists
           THEN /\ users' = [users EXCEPT ![ruser[p]] = update_recommendations(@, recommendations[p])]
                /\ last_writer' = [last_writer EXCEPT ![ruser[p]] = p]
                /\ rpc' = [rpc EXCEPT ![p] = "written"]
                /\ UNCHANGED <<rresult, rfault>>
           ELSE /\ rpc' = [rpc EXCEPT ![p] = "done"]
                /\ rresult' = [rresult EXCEPT ![p] = [status |-> "raised", list |-> <<>>]]
                /\ rfault' = [rfault EXCEPT ![p] = "write"]
                /\ UNCHANGED <<users, last_writer>>
    /\ UNCHANGED <<svars, vvars, pvars, books, ruser, user_profile, all_categories, recommended_book_ids,
                   recommendations, queries, degraded, rorder>>

\* main_recommender returns the list (recommender.py 149)
RecReturn(p) ==
    /\ rpc[p] = "written"
    /\ rresult' = [rresult EXCEPT ![p] = [status |-> "ok", list |-> recommendations[p]]]
    /\ rpc' = [rpc EXCEPT ![p] = "done"]
    /\ UNCHANGED <<svars, vvars, users, pvars, books, ruser, user_profile, all_categories, recommended_book_ids,
                   recommendations, queries, degraded, rorder, rfault, last_writer>>

\* the caller has the list; the next call can start
RecFinish(p) ==
    /\ rpc[p] = "done"
    /\ rpc' = [rpc EXCEPT ![p] = "idle"]
    /\ ruser' = [ruser EXCEPT ![p] = "u1"]
    /\ user_profile' = [user_profile EXCEPT ![p] = NoProfile]
    /\ all_categories' = [all_categories EXCEPT ![p] = {}]
    /\ recommended_book_ids' = [recommended_book_ids EXCEPT ![p] = <<>>]
    /\ recommendations' = [recommendations EXCEPT ![p] = <<>>]
    /\ rresult' = [rresult EXCEPT ![p] = NoRecResult]
    /\ queries' = [queries EXCEPT ![p] = 0]
    /\ degraded' = [degraded EXCEPT ![p] = FALSE]
    /\ rorder' = [rorder EXCEPT ![p] = "ascending"]
    /\ rfault' = [rfault EXCEPT ![p] = "none"]
    /\ last_writer' = [u \in Users |-> IF last_writer[u] = p THEN "none" ELSE last_writer[u]]
    /\ UNCHANGED <<svars, vvars, users, pvars, books>>

\* one call of /recommend at a time
NextRecommend ==
    \/ RecStart("r1")
    \/ RecSearch("r1")
    \/ RecDetails("r1")
    \/ RecWrite("r1")
    \/ RecReturn("r1")
    \/ RecFinish("r1")

SpecRecommend == InitRecommend /\ [][NextRecommend]_vars

\* ------------------------------- purchase requests and recommend calls
\* a store with a full profile, an empty document and users without document
SharedStore ==
    [u \in Users |->
        CASE u = "u1" -> UserDoc(TRUE, {"preferences", "wishlist", "preferred_format",
                                        "default_payment", "default_address"},
                                 <<"classic">>, <<1>>, <<>>, <<>>, "Ebook", "PayPal", "1 Main St")
          [] u = "u3" -> UserDoc(TRUE, {}, <<>>, <<>>, <<>>, <<>>, "", "", "")
          [] OTHER -> NoDoc]

InitShared ==
    /\ users = SharedStore
    /\ books = Catalog([id \in 1..2 |-> BookDoc("list", <<"scifi">>)], NumBooks)
    /\ PurchaseIdle
    /\ RecommendIdle
    /\ SearchIdle
    /\ VoiceIdle

\* the server takes a purchase request when no recommend call is running
SharedReceive ==
    /\ rpc["r1"] = "idle"
    /\ Receive

\* the server takes a recommend call when no purchase request is running
SharedRecStart ==
    /\ pc = "idle"
    /\ RecStart("r1")

NextShared ==
    \/ SharedReceive
    \/ BranchPurchase
    \/ BranchChat
    \/ BranchRaise
    \/ SearchStep
    \/ SearchReturn
    \/ Assemble
    \/ Return
    \/ SharedRecStart
    \/ RecSearch("r1")
    \/ RecDetails("r1")
    \/ RecWrite("r1")
    \/ RecReturn("r1")
    \/ RecFinish("r1")

SpecShared == InitShared /\ [][NextShared]_vars

\* ------------------------------------------- concurrent recommend calls
\* a user with a preference that many books match, and a stored list
RaceStore ==
    [u \in Users |->
        CASE u = "u1" -> UserDoc(TRUE, RecommendKeys, <<"scifi">>, <<3, 1>>, <<2>>, <<StaleEntry>>,
                                 "", "", "")
          [] u = "u3" -> UserDoc(TRUE, {}, <<>>, <<>>, <<>>, <<>>, "", "", "")
          [] OTHER -> NoDoc]

InitRace ==
    /\ users = RaceStore
    /\ books = Catalog([id \in 1..2 |-> BookDoc("list", <<"scifi">>)], NumBooks)
    /\ PurchaseIdle
    /\ RecommendIdle
    /\ SearchIdle
    /\ VoiceIdle

\* the server runs the calls of /recommend in threads, without a lock
NextRace ==
    \E p \in RProcs :
        \/ RecStart(p)
        \/ RecSearch(p)
        \/ RecDetails(p)
        \/ RecWrite(p)
        \/ RecReturn(p)
        \/ RecFinish(p)

SpecRace == InitRace /\ [][NextRace]_vars

\* ------------------------------------------ a recommend call after another
\* the second call starts when the first has returned
SecondStart ==
    /\ rpc["r1"] = "done"
    /\ RecStart("r2")

\* both callers have their lists
BothFinish ==
    /\ rpc["r1"] = "done"
    /\ rpc["r2"] = "done"
    /\ rpc' = [p \in RProcs |-> "idle"]
    /\ ruser' = [p \in RProcs |-> "u1"]
    /\ user_profile' = [p \in RProcs |-> NoProfile]
    /\ all_categories' = [p \in RProcs |-> {}]
    /\ recommended_book_ids' = [p \in RProcs |-> <<>>]
    /\ recommendations' = [p \in RProcs |-> <<>>]
    /\ rresult' = [p \in RProcs |-> NoRecResult]
    /\ queries' = [p \in RProcs |-> 0]
    /\ degraded' = [p \in RProcs |-> FALSE]
    /\ rorder' = [p \in RProcs |-> "ascending"]
    /\ rfault' = [p \in RProcs |-> "none"]
    /\ last_writer' = [u \in Users |-> "none"]
    /\ UNCHANGED <<svars, vvars, users, pvars, books>>

NextTwice ==
    \/ RecStart("r1")
    \/ RecSearch("r1")
    \/ RecDetails("r1")
    \/ RecWrite("r1")
    \/ RecReturn("r1")
    \/ SecondStart
    \/ RecSearch("r2")
    \/ RecDetails("r2")
    \/ RecWrite("r2")
    \/ RecReturn("r2")
    \/ BothFinish

SpecTwice == InitRace /\ [][NextTwice]_vars

\* ---------------------------------------------------------- the voice loop
\* results of the handler the loop was built with: handle_user_request, or
\* the function of main_voice, which raises TypeError on every call
VoiceHandlerResults ==
    LET book == fetch_book_details(ServiceResponse("ok", <<"dune">>))
    IN  {Raised("TypeError"), Raised("model"), Raised("profile"),
         Reply("ok", "chat", "", 0, <<>>, <<>>),
         Reply("ok", "notfound", "", 0, <<>>, <<>>),
         Reply("ok", "search", "", 0, book, <<>>),
         handle_purchase("u2", JsonDict(IntentKeys, 1, "dragons"), book, NoDoc)}

\* the thread of /start-voice runs handle_voice_interaction (app.py 200-205,
\* voice.py 166-168 and 67)
VoiceStart ==
    /\ vpc \in {"idle", "ended"}
    /\ vpc' = "listen"
    /\ vquery' = NoQuery
    /\ vresult' = NoResult
    /\ vspoken' = "hello"
    /\ vturns' = 0
    /\ UNCHANGED <<users, pvars, rvars, svars>>

\* query = self.listen_for_query() (voice.py 70, 23-43)
VoiceListen ==
    /\ vpc = "listen"
    /\ vturns < MaxTurns
    /\ \E outcome \in ListenOutcomes :
           /\ vquery' = outcome
           /\ vspoken' = IF outcome.heard THEN vspoken ELSE outcome.failure
    /\ vturns' = vturns + 1
    /\ vpc' = "heard"
    /\ UNCHANGED <<users, pvars, rvars, svars, vresult>>

\* the tests on the query (voice.py 71-76)
VoiceDispatch ==
    /\ vpc = "heard"
    /\ vpc' = after_query(vquery)
    /\ vspoken' = IF after_query(vquery) = "ended" THEN "goodbye" ELSE vspoken
    /\ UNCHANGED <<users, pvars, rvars, svars, vquery, vresult, vturns>>

\* the call of the handler inside try/except Exception (voice.py 78-102)
VoiceHandle ==
    /\ vpc = "handle"
    /\ \E res \in VoiceHandlerResults :
           /\ vresult' = res
           /\ vspoken' = IF after_request(res) = "confirm" THEN "proceed?" ELSE spoken_response(res)
           /\ vpc' = after_request(res)
    /\ UNCHANGED <<users, pvars, rvars, svars, vquery, vturns>>

\* one iteration of the loop of _handle_purchase_confirmation (voice.py 107-133)
VoiceConfirm ==
    /\ vpc = "confirm"
    /\ vturns < MaxTurns
    /\ \E outcome \in ListenOutcomes :
           /\ vquery' = outcome
           /\ vpc' = after_answer(outcome)
           /\ vspoken' = IF ~outcome.heard THEN outcome.failure
                          ELSE IF ~truthy(outcome) THEN vspoken
                          ELSE IF is_yes(outcome.text) THEN "total"
                          ELSE IF is_no(outcome.text) THEN "no problem"
                          ELSE "yes or no?"
    /\ vturns' = vturns + 1
    /\ UNCHANGED <<users, pvars, rvars, svars, vresult>>

NextVoice ==
    \/ VoiceStart
    \/ VoiceListen
    \/ VoiceDispatch
    \/ VoiceHandle
    \/ VoiceConfirm

SpecVoice == Init /\ [][NextVoice]_vars

\* -------------------------------------------- the search path's requests
\* main_search asks the model for the table (searching.py 84, 31-44)
MainSearchStart ==
    /\ spc = "idle"
    /\ \E table \in TableResponses :
           IF table.ok
           THEN /\ squeue' = generate_recommendations(table.content)
                /\ spc' = "loop"
                /\ UNCHANGED sresult
           ELSE /\ spc' = "done"
                /\ sresult' = [status |-> "raised", error |-> "model", books |-> <<>>]
                /\ UNCHANGED squeue
    /\ UNCHANGED <<users, pvars, rvars, vvars, book_details_list, slookups>>

\* one iteration of the loop of main_search (searching.py 88-91, 52-76)
MainSearchStep ==
    /\ spc = "loop"
    /\ squeue # <<>>
    /\ \E status \in SearchStatuses :
           LET details == search_fetch_book_details(ServiceResponse(status, Head(squeue).title))
           IN  IF details.raised
               THEN /\ spc' = "done"
                    /\ sresult' = [status |-> "raised", error |-> "lookup", books |-> <<>>]
                    /\ UNCHANGED <<squeue, book_details_list>>
               ELSE /\ book_details_list' = book_details_list \o details.details
                    /\ squeue' = Tail(squeue)
                    /\ UNCHANGED <<spc, sresult>>
    /\ slookups' = slookups + 1
    /\ UNCHANGED <<users, pvars, rvars, vvars>>

\* main_search returns the list (searching.py 94)
MainSearchReturn ==
    /\ spc = "loop"
    /\ squeue = <<>>
    /\ sresult' = [status |-> "ok", error |-> "", books |-> book_details_list]
    /\ spc' = "done"
    /\ UNCHANGED <<users, pvars, rvars, vvars, squeue, book_details_list, slookups>>

\* the /search route has answered; the next search can arrive
MainSearchFinish ==
    /\ spc = "done"
    /\ spc' = "idle"
    /\ squeue' = <<>>
    /\ book_details_list' = <<>>
    /\ sresult' = NoSearchResult
    /\ slookups' = 0
    /\ UNCHANGED <<users, pvars, rvars, vvars>>

NextSearch ==
    \/ MainSearchStart
    \/ MainSearchStep
    \/ MainSearchReturn
    \/ MainSearchFinish

SpecSearch == Init /\ [][NextSearch]_vars

\* ------------------------------------------------------------ properties
OwnedTitles(uid) == Range(Get(to_dict(users[uid]), "owned_books", <<>>))

\* positions of found_books whose title the user does not own
Unowned == {i \in 1..Len(found_books) : found_books[i].title \notin OwnedTitles(user_id)}

IsIntent(parsed) == parsed.type = "dict" /\ IntentKeys \subseteq parsed.keys

PurchaseRequest == pc = "done" /\ request_branch(parsed_request) = "purchase"

\* C1: no offer of purchase_details carries a title that is in the owned_books
\* of the profile of the request's user, for handle_user_request and for /chat
C1_NoOwnedOffer ==
    \A i \in 1..Len(result.purchase_details) :
        result.purchase_details[i].book_title \notin OwnedTitles(user_id)

\* offers were built from a candidate list that had an owned title in it
C1_Witness ==
    /\ pc = "done"
    /\ result.branch = "purchase"
    /\ result.purchase_details # <<>>
    /\ \E i \in 1..Len(found_books) : found_books[i].title \in OwnedTitles(user_id)

\* C2: the number of offers is min(quantity, number of candidates left after
\* the owned titles are removed), and a quantity above that number raises
\* nothing: a purchase request only fails when the model or the profile store
\* does
C2_OfferCount ==
    PurchaseRequest =>
        IF result.status = "ok"
        THEN Len(result.purchase_details) = Min(parsed_request.quantity, Cardinality(Unowned))
        ELSE result.error \in {"model", "profile"}

\* fewer unowned candidates than the quantity asked for, one owned one removed
C2_Witness ==
    /\ PurchaseRequest
    /\ result.status = "ok"
    /\ Cardinality(Unowned) = 1
    /\ Len(found_books) > 1
    /\ parsed_request.quantity = 2
    /\ Len(result.purchase_details) = 1

\* the response is a JSON object that has the quantity and the topic
ParsesAsIntent(resp) ==
    /\ resp.ok
    /\ json_valid(unfence(strip(resp.content)))
    /\ IsIntent(json_loads(unfence(strip(resp.content))))

\* C4: when the model's output cannot be parsed as a structured intent, or
\* the invocation fails, parse_user_request returns the sentinel intent
C4_SentinelOnUnparseable ==
    (pc = "parsed" /\ ~ParsesAsIntent(response)) => parsed_request = Sentinel

\* C5: with an intent of quantity 0 the request performs no candidate
\* resolution and no catalog lookup, and its reply has no books and no offers
C5_NoCatalogForConversation ==
    ("quantity" \in parsed_request.keys /\ parsed_request.quantity = 0) =>
        /\ searches = 0
        /\ lookups = 0
        /\ pc \notin {"search", "searched"}
        /\ (pc = "done" /\ result.status = "ok") =>
               /\ result.branch = "chat"
               /\ result.found_books = <<>>
               /\ result.purchase_details = <<>>

\* a request classified as the sentinel intent has been answered
C5_Witness ==
    /\ pc = "done"
    /\ parsed_request = Sentinel
    /\ result.status = "ok"

\* C9: an intent returned by parse_user_request has quantity 0 exactly when
\* its topic is the sentinel
C9_QuantityZeroIffSentinel ==
    (pc = "parsed" /\ IsIntent(parsed_request)) =>
        (parsed_request.quantity = 0 <=> parsed_request.topic = "Null")

\* C10: the list search_books returns has at most 5 entries, and every
\* iteration leaves the books found so far in place, adding at most one
\* book, for the current row, at the end
C10_AtMostFiveInOrder ==
    [][/\ pc' = "searched" => Len(found_books') <= RequestedBooks
       /\ (pc = "search" /\ pc' = "search") =>
              /\ lines' = Tail(lines)
              /\ \E found \in {<<>>} \cup {fetch_book_details(ServiceResponse("ok", <<q>>)) : q \in QueryTitles} :
                     recommended_books' = recommended_books \o found
       /\ (pc = "search" /\ pc' = "searched") => found_books' = recommended_books]_vars

\* the union of the stored preferences and of the categories of the wishlist
\* and of the owned books, read off the store and the catalog
CategoryUnion(uid) ==
    LET doc == users[uid]
        held == IF doc.exists
                THEN (IF "wishlist" \in doc.keys THEN Range(doc.wishlist) ELSE {})
                         \cup (IF "owned_books" \in doc.keys THEN Range(doc.owned_books) ELSE {})
                ELSE {}
        stored == IF doc.exists /\ "preferences" \in doc.keys THEN Range(doc.preferences) ELSE {}
    IN  stored \cup
        ({cat \in {"scifi", "classic", "N/A", ""} :
             \E id \in held \cap DOMAIN books :
                 books[id].kind = "list" /\ \E i \in 1..Len(books[id].Category) : books[id].Category[i] = cat}
         \ {"N/A", ""})

KnownIds(uid) == Range(Get(to_dict(users[uid]), "wishlist", <<>>))
                     \cup Range(Get(to_dict(users[uid]), "owned_books", <<>>))

\* C3: the list recommend computes and returns has no catalog id twice, no id
\* of the user's wishlist or owned_books, and at most 10 entries, on the
\* fallback path too
C3_RecommendationSet ==
    \A p \in RProcs : \A out \in {recommendations[p], rresult[p].list} :
        /\ Len(out) <= MaxRecommendations
        /\ \A i, j \in 1..Len(out) : out[i].id = out[j].id => i = j
        /\ \A i \in 1..Len(out) : out[i].id \notin KnownIds(ruser[p])

\* a call on the fallback path returned 10 entries after known ids were removed
C3_Witness ==
    /\ rpc["r1"] = "done"
    /\ rresult["r1"].status = "ok"
    /\ degraded["r1"]
    /\ Len(rresult["r1"].list) = MaxRecommendations
    /\ Range(recommended_book_ids["r1"]) \cap KnownIds(ruser["r1"]) # {}

\* C6: for a user whose category union is empty, recommend issues no catalog
\* query and returns the empty sequence
C6_NoSignalNoQuery ==
    \A p \in RProcs :
        (rpc[p] # "idle" /\ CategoryUnion(ruser[p]) = {}) =>
            /\ queries[p] = 0
            /\ rpc[p] \notin {"search", "filter"}
            /\ rresult[p].status = "ok" => rresult[p].list = <<>>

\* a user with a wishlist whose books give no category got the empty list
C6_Witness ==
    /\ rpc["r1"] = "done"
    /\ rresult["r1"].status = "ok"
    /\ CategoryUnion(ruser["r1"]) = {}
    /\ user_profile["r1"].wishlist # <<>>
    /\ rresult["r1"].list = <<>>

Matches(entry, uid) ==
    /\ entry.kind = "list"
    /\ \E i \in 1..Len(entry.Category) : entry.Category[i] \in CategoryUnion(uid)

\* C7 as stated: every entry of the output of recommend has a category list
\* with at least one category of the input category set, in every run,
\* runs with a failed category query included
C7_EveryEntryMatches ==
    \A p \in RProcs : \A i \in 1..Len(rresult[p].list) : Matches(rresult[p].list[i], ruser[p])

\* C7 amended: in every run of recommend in which no category query fails,
\* every entry of the output has a category list with at least one category
\* of the input category set
C7_EveryEntryMatchesUnlessDegraded ==
    \A p \in RProcs :
        ~degraded[p] => \A i \in 1..Len(rresult[p].list) : Matches(rresult[p].list[i], ruser[p])

\* a run without a failed query returned entries while the catalog holds a
\* book that matches none of the user's categories
C7_Witness ==
    /\ rpc["r1"] = "done"
    /\ ~degraded["r1"]
    /\ rresult["r1"].list # <<>>
    /\ \E id \in BookIds :
           /\ books[id].kind \in {"list", "nolist"}
           /\ id \notin KnownIds(ruser["r1"])
           /\ ~Matches(books[id], ruser["r1"])

\* C8 as stated: after every completed call the recommendations field of the
\* user's profile equals the returned list, the empty list included
C8_FieldEqualsReturned ==
    \A p \in RProcs :
        (rpc[p] = "done" /\ rresult[p].status = "ok") =>
            users[ruser[p]].recommendations = rresult[p].list

\* C8 amended: after every completed call that returns a list that is not
\* empty, the recommendations field equals the returned list, written before
\* the return; a call that computed the empty list writes nothing
C8_FieldEqualsReturnedIfNotEmpty ==
    [][\A p \in RProcs :
          /\ (rpc'[p] \in {"written", "done"} /\ recommendations'[p] # <<>>
                  /\ rresult'[p].status # "raised") =>
                 /\ "recommendations" \in users'[ruser'[p]].keys
                 /\ users'[ruser'[p]].recommendations = recommendations'[p]
          /\ (rpc'[p] = "done" /\ rresult'[p].status = "ok") =>
                 rresult'[p].list = recommendations'[p]
          /\ (rpc[p] = "computed" /\ recommendations[p] = <<>>) => users' = users]_vars

\* a call returned a list that is not empty and replaced the stored one
C8_Witness ==
    /\ rpc["r1"] = "done"
    /\ rresult["r1"].status = "ok"
    /\ rresult["r1"].list # <<>>
    /\ rresult["r1"].list # <<StaleEntry>>
    /\ users[ruser["r1"]].recommendations = rresult["r1"].list

\* C11: a lookup of the catalog service that fails by a transport error or
\* an unparsable answer counts as an absent book and raises nothing: every
\* iteration of the enrichment loop of main_search drops or keeps its
\* candidate and goes on with the remaining candidates, the details found so
\* far staying in their order.
C11_LookupFailureIsAbsent ==
    [][(spc = "loop" /\ squeue # <<>>) =>
          /\ spc' = "loop"
          /\ squeue' = Tail(squeue)
          /\ sresult' = sresult
          /\ \/ book_details_list' = book_details_list
             \/ /\ Len(book_details_list') = Len(book_details_list) + 1
                /\ SubSeq(book_details_list', 1, Len(book_details_list)) = book_details_list]_vars

\* the first FallbackLimit documents of the books collection
FirstIds ==
    {id \in DOMAIN books :
        /\ books[id].kind # "missing"
        /\ Cardinality({j \in DOMAIN books : books[j].kind # "missing" /\ j < id}) < FallbackLimit}

\* the ids of a list that can be recommended to the user of call p
Eligible(p, ids) ==
    {id \in Range(ids) :
        /\ id \notin Range(user_profile[p].owned_books) \cup Range(user_profile[p].wishlist)
        /\ get_book(books, id).kind \notin {"missing", "empty"}}

\* C12: a category query that fails does not fail the call: the search step
\* ends in the filter step with at most 20 distinct ids, all among the first
\* 20 documents of the catalog whatever the queries before the failure had
\* matched, and the exclusion, the fetch and the cut to 10 then run on them.
C12_FallbackOnQueryFailure ==
    [][\A p \in RProcs :
          /\ (rpc[p] = "search" /\ rpc'[p] # "search") =>
                 /\ rpc'[p] = "filter"
                 /\ rresult'[p] = rresult[p]
          /\ (rpc[p] = "search" /\ degraded'[p]) =>
                 /\ Len(recommended_book_ids'[p]) <= FallbackLimit
                 /\ Cardinality(Range(recommended_book_ids'[p])) = Len(recommended_book_ids'[p])
                 /\ Range(recommended_book_ids'[p]) \subseteq FirstIds
          /\ (rpc[p] = "filter" /\ degraded[p] /\ rpc'[p] = "computed") =>
                 LET list == recommendations'[p]
                 IN  /\ {list[i].id : i \in 1..Len(list)} \subseteq Eligible(p, recommended_book_ids[p])
                     /\ Cardinality({list[i].id : i \in 1..Len(list)}) = Len(list)
                     /\ Len(list) = Min(MaxRecommendations,
                                        Cardinality(Eligible(p, recommended_book_ids[p])))]_vars

\* a failed query left the 20 first ids, one of them in no category of the
\* user and a matching book beyond them left out, and the list was computed
C12_Witness ==
    /\ rpc["r1"] = "computed"
    /\ degraded["r1"]
    /\ Len(recommended_book_ids["r1"]) = FallbackLimit
    /\ \E id \in DOMAIN books \ Range(recommended_book_ids["r1"]) :
           id \in UNION {query_by_category(books, c) : c \in all_categories["r1"]}
    /\ \E id \in Range(recommended_book_ids["r1"]) :
           id \notin UNION {query_by_category(books, c) : c \in all_categories["r1"]}
    /\ Len(recommendations["r1"]) = MaxRecommendations

\* C13: a failure of the profile store is a failure of the call: a purchase
\* request whose profile read failed raises and returns no offer and no book,
\* and a recommend call whose profile read or recommendations write failed
\* raises and returns no list.
C13_StoreFailurePropagates ==
    /\ pfault => /\ pc = "done"
                 /\ result.status = "raised"
                 /\ result.purchase_details = <<>>
                 /\ result.found_books = <<>>
    /\ \A p \in RProcs :
           rfault[p] \in {"profile", "write"} =>
               /\ rpc[p] = "done"
               /\ rresult[p].status = "raised"
               /\ rresult[p].list = <<>>

\* a recommend call with a list computed lost its write, after an earlier
\* call had stored a list
C13_Witness ==
    /\ rfault["r1"] = "write"
    /\ recommendations["r1"] # <<>>
    /\ users[ruser["r1"]].recommendations # <<>>

\* C14: when two recommend calls for one user have both finished, the
\* recommendations field of the user equals the list computed by the call
\* whose write came last, whole, however the steps of the two interleaved.
C14_LastWriterWins ==
    \A p \in RProcs, q \in RProcs :
        (/\ p # q
         /\ rpc[p] = "done" /\ rpc[q] = "done"
         /\ ruser[p] = ruser[q]
         /\ last_writer[ruser[p]] = p)
        => users[ruser[p]].recommendations = recommendations[p]

\* both calls for one user wrote different lists, the second call last
C14_Witness ==
    /\ rpc["r1"] = "done" /\ rpc["r2"] = "done"
    /\ ruser["r1"] = ruser["r2"]
    /\ rresult["r1"].status = "ok" /\ rresult["r2"].status = "ok"
    /\ recommendations["r1"] # <<>>
    /\ recommendations["r2"] # <<>>
    /\ recommendations["r1"] # recommendations["r2"]
    /\ last_writer[ruser["r1"]] = "r2"

\* the fields of a profile other than recommendations
FrameFields ==
    {"preferences", "wishlist", "owned_books", "preferred_format", "default_payment",
     "default_address"}

\* C15: no step of a purchase request changes the users collection, and a
\* step of a recommend call that changes it is the write of that call: it
\* leaves every other user's document as it was and, in the document of its
\* user, every field but recommendations.
C15_OnlyRecommendationsWritten ==
    [][/\ (pvars' # pvars) => users' = users
       /\ (users' # users) =>
              \E p \in RProcs :
                  /\ rpc[p] = "computed" /\ rpc'[p] = "written"
                  /\ \A u \in Users \ {ruser[p]} : users'[u] = users[u]
                  /\ users'[ruser[p]].exists = users[ruser[p]].exists
                  /\ users'[ruser[p]].keys \ {"recommendations"}
                         = users[ruser[p]].keys \ {"recommendations"}
                  /\ \A f \in FrameFields : users'[ruser[p]][f] = users[ruser[p]][f]]_vars

\* a recommend call stored its list in a profile that has other fields
C15_Witness ==
    /\ rpc["r1"] = "written"
    /\ users[ruser["r1"]].recommendations = recommendations["r1"]
    /\ recommendations["r1"] # <<>>
    /\ FrameFields \cap users[ruser["r1"]].keys # {}
    /\ users[ruser["r1"]].preferred_format = "Ebook"

\* a first call and a second call for the same user have both returned a list
TwoCallsReturned ==
    /\ rpc["r1"] = "done" /\ rpc["r2"] = "done"
    /\ ruser["r1"] = ruser["r2"]
    /\ rresult["r1"].status = "ok" /\ rresult["r2"].status = "ok"

\* the two lists hold the same entries and the field holds the list
SameRecommendations ==
    /\ Range(rresult["r1"].list) = Range(rresult["r2"].list)
    /\ rresult["r1"].list # <<>> => users[ruser["r1"]].recommendations = rresult["r1"].list

\* C16 as stated: with the catalog and the profile unchanged, a second
\* recommend call for a user returns the same recommendation set as the
\* first and leaves the recommendations field with the same value.
C16_SecondCallSameSet == TwoCallsReturned => SameRecommendations

\* C16: with the catalog and the profile unchanged, a second recommend call
\* for a user in which, as in the first, no category query failed and the
\* matched ids were iterated in the same order returns the same
\* recommendation set as the first and leaves the field with the same value.
C16_SecondCallSameSetSameRun ==
    (/\ TwoCallsReturned
     /\ ~degraded["r1"] /\ ~degraded["r2"]
     /\ rorder["r1"] = rorder["r2"])
    => SameRecommendations

\* the second call returned the ten entries the first had stored over an
\* older list
C16_Witness ==
    /\ TwoCallsReturned
    /\ ~degraded["r1"] /\ ~degraded["r2"]
    /\ rorder["r1"] = "descending" /\ rorder["r2"] = "descending"
    /\ Len(rresult["r2"].list) = MaxRecommendations
    /\ last_writer[ruser["r2"]] = "r2"
    /\ users[ruser["r2"]].recommendations = rresult["r1"].list

\* the request returned books and offers
PurchaseReplied == PurchaseRequest /\ result.status = "ok" /\ result.branch = "purchase"

\* the position in found_books of the i-th book the user does not own
NthUnowned(i) == CHOOSE k \in Unowned : Cardinality({j \in Unowned : j < k}) = i - 1

\* C17: the books a purchase request returns are the first min(quantity, n)
\* of the n candidates the user does not own, in the order search_books gave
\* them, and the i-th offer has the title and the author of the i-th book.
C17_FoundBooksAndOffers ==
    PurchaseReplied =>
        /\ Len(result.found_books) = Min(parsed_request.quantity, Cardinality(Unowned))
        /\ \A i \in 1..Len(result.found_books) :
               result.found_books[i] = found_books[NthUnowned(i)]
        /\ Len(result.purchase_details) = Len(result.found_books)
        /\ \A i \in 1..Len(result.purchase_details) :
               /\ result.purchase_details[i].book_title = result.found_books[i].title
               /\ result.purchase_details[i].author = result.found_books[i].author

\* owned candidates stood before and between the books returned, and more
\* candidates were left than asked for
C17_Witness ==
    /\ PurchaseReplied
    /\ 1 \notin Unowned /\ 2 \in Unowned /\ 3 \notin Unowned
    /\ parsed_request.quantity = 2
    /\ Cardinality(Unowned) > 2
    /\ Len(result.purchase_details) = 2

\* whether the stored document of the request's user has the field
Stored(field) == users[user_id].exists /\ field \in users[user_id].keys

\* C18: every offer has the user id of the request, the title, author and
\* price of its catalog entry, and the format, payment method and address of
\* the profile where it has them, "Paperback", "Credit Card" and "" where it
\* has not, a user without document included.
C18_OfferComplete ==
    PurchaseReplied =>
        \A i \in 1..Len(result.purchase_details) :
            LET offer == result.purchase_details[i]
                entry == found_books[NthUnowned(i)]
            IN  /\ offer.user_id = user_id
                /\ offer.book_title = entry.title
                /\ offer.author = entry.author
                /\ offer.price = entry.price
                /\ offer.format = IF Stored("preferred_format")
                                  THEN users[user_id].preferred_format ELSE "Paperback"
                /\ offer.payment_method = IF Stored("default_payment")
                                          THEN users[user_id].default_payment ELSE "Credit Card"
                /\ offer.shipping_address = IF Stored("default_address")
                                            THEN users[user_id].default_address ELSE ""

\* a user without document got two offers
C18_Witness ==
    /\ PurchaseReplied
    /\ ~users[user_id].exists
    /\ Len(result.purchase_details) = 2
    /\ result.purchase_details[1].price # result.purchase_details[2].price

\* the answer is the JSON document between an opening and a closing fence
FencedIntent(resp, doc) ==
    /\ resp.ok
    /\ \E o \in Openings \ {<<>>}, c \in Closings \ {<<>>} : resp.content = o \o <<doc>> \o c

\* C19: an answer of the model that is a JSON intent inside a markdown code
\* fence, with the language tag json after the opening fence or without a
\* tag, is parsed to that intent.
C19_FencedIntentParsed ==
    pc = "parsed" =>
        \A doc \in IntentDocs :
            FencedIntent(response, doc) => parsed_request = json_loads(<<doc>>)

\* C20: the voice loop is left only on a recognized query that contains an
\* exit phrase; after a recognition that failed or gave an empty text, and
\* after an exception of the request handler, the loop is listening again.
C20_LoopEndsOnlyOnExit ==
    /\ [](vpc = "ended" => vquery.heard /\ is_exit(vquery.text))
    /\ [][
          /\ (vpc # "ended" /\ vpc' = "ended") =>
                 vpc = "heard" /\ vquery.heard /\ is_exit(vquery.text)
          /\ (vpc = "heard" /\ (~vquery.heard \/ vquery.text = <<>>)) => vpc' = "listen"
          /\ (vpc = "handle" /\ vresult'.status = "raised") => vpc' = "listen"
          /\ (vpc = "confirm" /\ (~vquery'.heard \/ vquery'.text = <<>>)) => vpc' = "confirm"
       ]_vars

\* the handler raised for a query, the next recognition failed, and the
\* loop is listening again
C20_Witness ==
    /\ vpc = "listen"
    /\ vresult.status = "raised"
    /\ ~vquery.heard
    /\ vquery.failure \in RecognitionFailures
    /\ vturns >= 2

\* C21: for the same classified intent, candidate list and profile, the
\* /chat route and handle_user_request take the same branch and return the
\* same found_books and purchase_details; they raise alike, but for the
\* model call that only handle_user_request makes in the conversational
\* branch.
C21_EndpointsAgree ==
    (pc = "done" /\ other_result.status # "none") =>
        /\ (result.status = "ok" /\ other_result.status = "ok") =>
               /\ result.branch = other_result.branch
               /\ result.found_books = other_result.found_books
               /\ result.purchase_details = other_result.purchase_details
        /\ (result.status = "raised" /\ other_result.status = "raised") =>
               result.error = other_result.error
        /\ result.status # other_result.status =>
               /\ request_branch(parsed_request) = "chat"
               /\ "model" \in {result.error, other_result.error}

\* the route answered a purchase request with two offers after an owned
\* candidate had been dropped and more books were left than asked for
C21_Witness ==
    /\ pc = "done"
    /\ endpoint = "chat"
    /\ result.status = "ok" /\ result.branch = "purchase"
    /\ other_result.status = "ok"
    /\ 1 \notin Unowned
    /\ Cardinality(Unowned) > parsed_request.quantity
    /\ Len(result.purchase_details) = 2

====
